---- MODULE Spec2Model ----
(***************************************************************************)
(* Interface ingestion and completion of cmd/compile/internal/types2       *)
(* (interface.go): Checker.interfaceType, Checker.completeInterface and    *)
(* completeInterface, with the checker's delayed-action list and its       *)
(* error list.                                                             *)
(***************************************************************************)
EXTENDS Integers, Sequences, FiniteSets, Bags, TLC

(* ------------------------------------------------------------------ *)
(* Bounds of the model                                                 *)
(* ------------------------------------------------------------------ *)

\* number of members of all interface declarations of the package together
MaxMembers == 3

\* the same, for the specification of type checking alone
MaxCheckedMembers == 4

\* the interface declarations of the package being checked
Locals == {1, 2}

(* ------------------------------------------------------------------ *)
(* Objects, names and positions                                        *)
(* ------------------------------------------------------------------ *)

\* the package being checked (check.pkg) and an imported package
LocalPkg == "p"
ImportedPkg == "q"

\* the interface of the imported package; the importer has completed it
Imported == 0
Ifaces == {Imported} \cup Locals

\* source position of member k of the declaration of interface i
PosOf(i, k) == 10 * i + k

\* lexical order of the method names and package paths that occur
NameOrd(n) == CASE n = "M" -> 1 [] n = "N" -> 2 [] n = "m" -> 3 [] OTHER -> 4
PkgOrd(p) == IF p = LocalPkg THEN 1 ELSE 2

isExported(name) == name \in {"M", "N"}

NewFunc(pos, pkg, name, sig) == [name |-> name, pkg |-> pkg, sig |-> sig, pos |-> pos]

\* object.Id: the key of objset; the package qualifies unexported names only
Id(f) == IF isExported(f.name) THEN <<f.name, "">> ELSE <<f.name, f.pkg>>

\* object.less: by name, then (unexported names) by package
less(a, b) ==
    IF a.name # b.name THEN NameOrd(a.name) < NameOrd(b.name)
    ELSE IF ~isExported(a.name) THEN PkgOrd(a.pkg) < PkgOrd(b.pkg)
    ELSE FALSE

\* Identical on signatures: signatures are named by their structure
Identical(s, t) == s = t

(* ------------------------------------------------------------------ *)
(* Sorting                                                             *)
(* ------------------------------------------------------------------ *)

Permute(list, p) == [k \in 1..Len(list) |-> list[p[k]]]

IsSortedMethods(list) ==
    \A a, b \in 1..Len(list) : a < b => ~less(list[b], list[a])

\* sortMethods: sort.Sort by byUniqueMethodName. sort.Sort is not stable, so
\* methods that compare equal may end in either order.
sortMethods(list) ==
    {s \in {Permute(list, p) : p \in Permutations(1..Len(list))} : IsSortedMethods(s)}

\* sortObj: the object of a named type, nil (rank 0) for any other type;
\* a nil object sorts before every other
sortObj(t) == t.rank

\* the permutation sort.Stable applies to a list of types
StablePerm(list) ==
    CHOOSE p \in Permutations(1..Len(list)) :
        \A a, b \in 1..Len(list) : a < b =>
            \/ sortObj(list[p[a]]) < sortObj(list[p[b]])
            \/ sortObj(list[p[a]]) = sortObj(list[p[b]]) /\ p[a] < p[b]

\* sortTypes: sort.Stable by byUniqueTypeName
sortTypes(list) == Permute(list, StablePerm(list))

(* ------------------------------------------------------------------ *)
(* Types that an embedded element resolves to                          *)
(* ------------------------------------------------------------------ *)

\* k: the shape under(typ) switches on; id: the Interface value; rank: the
\* order of the type's object among named types (0: not a named type);
\* terms: the types the element contributes to the type set
NamedInterface(j) == [k |-> "interface", id |-> j, rank |-> j + 1, terms |-> {}]
AliasInterface(j) == [k |-> "interface", id |-> j, rank |-> 0, terms |-> {}]
UnionOf(ts) == [k |-> "union", id |-> 0, rank |-> 0, terms |-> ts]
TypeParamP == [k |-> "typeparam", id |-> 0, rank |-> 0, terms |-> {"P"}]
InvalidType == [k |-> "invalid", id |-> 0, rank |-> 0, terms |-> {}]
BasicInt == [k |-> "other", id |-> 0, rank |-> 0, terms |-> {"int"}]

\* allTypes: nil stands for the top type (no restriction)
TopType == [top |-> TRUE, terms |-> {}]
TermSet(ts) == [top |-> FALSE, terms |-> ts]

\* intersect: nil is the identity; otherwise the types in both operands
intersect(x, y) ==
    IF x.top THEN y
    ELSE IF y.top THEN x
    ELSE TermSet(x.terms \cap y.terms)

\* allMethods: nil, or a list; markComplete is the empty non-nil list
NilMethods == [isnil |-> TRUE, list |-> <<>>]
MethodList(l) == [isnil |-> FALSE, list |-> l]
markComplete == MethodList(<<>>)

(* ------------------------------------------------------------------ *)
(* Declarations (syntax.InterfaceType.MethodList)                      *)
(* ------------------------------------------------------------------ *)

\* a member f of the MethodList:
\*   "embed"   f.Name = nil, f.Type resolves to typ
\*   "method"  f.Type resolves to the signature sig
\*   "blank"   f.Name is _
\*   "nonsig"  f.Type resolves to a type that is no signature
\*   "badsig"  f.Type resolves to Typ[Invalid]
\*   "type"    an entry of the type list whose name node is grp
Member(kind, name, sig, typ, grp) ==
    [kind |-> kind, name |-> name, sig |-> sig, typ |-> typ, grp |-> grp]
Method(name, sig) == Member("method", name, sig, InvalidType, 0)
Embed(typ) == Member("embed", "", 0, typ, 0)
Blank == Member("blank", "_", 1, InvalidType, 0)
NonSig == Member("nonsig", "N", 0, BasicInt, 0)
BadSig == Member("badsig", "N", 0, InvalidType, 0)
TypeEntry(t, grp) == Member("type", "type", 0, UnionOf({t}), grp)

\* the indices of the members of mlist of the given kind, in source order
Indices(mlist, kind) ==
    SelectSeq([k \in 1..Len(mlist) |-> k], LAMBDA k : mlist[k].kind = kind)

Diag(msg, pos, name, opos) == [msg |-> msg, pos |-> pos, name |-> name, opos |-> opos]

RECURSIVE SeqToBag(_)
SeqToBag(s) == IF s = <<>> THEN EmptyBag ELSE SetToBag({Head(s)}) (+) SeqToBag(Tail(s))

(* ------------------------------------------------------------------ *)
(* State                                                               *)
(* ------------------------------------------------------------------ *)

VARIABLES
    decl,        \* the MethodList of each interface declaration
    version,     \* the language version of the package (minor of go1.x)
    ingested,    \* the declarations interfaceType has processed
    methods,     \* Interface.methods
    embeddeds,   \* Interface.embeddeds
    allMethods,  \* Interface.allMethods
    allTypes,    \* Interface.allTypes
    posMap,      \* check.posMap
    delayed,     \* the actions given to check.later that have not run
    diags,       \* the errors reported so far
    stack,       \* the active calls of completeInterface, innermost last
    panicMsg,    \* the panic that ended the last call, "" if it returned
    finished,    \* the interfaces whose call of completeInterface has returned
    declPos,     \* for each element of embeddeds, the position of its declaration
    entered,     \* how often the body of completeInterface was entered
    outer,       \* the interfaces whose completion was entered by a caller outside
    checked,     \* the interfaces whose completion was entered with check # nil
    collisions,  \* the inherited methods found to collide with a method present
    lastOp       \* the call of Checker.completeInterface or of completeInterface made
                 \* by the last step, and whether allMethods was set before it

vars == <<decl, version, ingested, methods, embeddeds, allMethods, allTypes,
          posMap, delayed, diags, stack, panicMsg, finished, declPos, entered,
          outer, checked, collisions, lastOp>>

NoPanic == ""
NoOp == [op |-> "none", ityp |-> 0, check |-> FALSE, done |-> FALSE]
Op(op, i, check) ==
    [op |-> op, ityp |-> i, check |-> check, done |-> ~allMethods[i].isnil]

\* check.allowVersion(pkg, 1, minor)
allowVersion(minor) == version >= minor

\* the methods of the imported interface
ImportedMethods ==
    << NewFunc(1, ImportedPkg, "M", 2), NewFunc(2, ImportedPkg, "m", 1) >>

CompleteTask(i) ==
    [kind |-> "complete", ityp |-> i, m |-> NewFunc(0, "", "", 0),
     other |-> NewFunc(0, "", "", 0), pos |-> 0, opos |-> 0]
OverlapTask(i, m, other, pos, opos) ==
    [kind |-> "overlap", ityp |-> i, m |-> m, other |-> other, pos |-> pos, opos |-> opos]

(* ------------------------------------------------------------------ *)
(* Checker.interfaceType                                               *)
(* ------------------------------------------------------------------ *)

MemberErrorsNone(i, mlist) == EmptyBag

\* the errors of the member loop
MemberErrors(i, mlist) ==
    LET blanks == Indices(mlist, "blank")
        nonsigs == Indices(mlist, "nonsig")
        tl == Indices(mlist, "type")
        multi == SelectSeq([k \in 1..Len(tl) |-> k],
                     LAMBDA k : k > 1 /\ mlist[tl[k]].grp # mlist[tl[k - 1]].grp)
    IN  SeqToBag([k \in 1..Len(blanks) |->
                     Diag("invalid method name _", PosOf(i, blanks[k]), "_", 0)])
        (+) SeqToBag([k \in 1..Len(nonsigs) |->
                     Diag("is not a method signature", PosOf(i, nonsigs[k]), "", 0)])
        (+) SeqToBag([k \in 1..Len(multi) |->
                     Diag("cannot have multiple type lists in an interface",
                          PosOf(i, tl[multi[k]]), "", 0)])

\* ityp.methods after the member loop
DeclaredMethods(i, mlist) ==
    LET ix == Indices(mlist, "method")
    IN  [k \in 1..Len(ix) |->
            NewFunc(PosOf(i, ix[k]), LocalPkg, mlist[ix[k]].name, mlist[ix[k]].sig)]

\* the union of the entries of all type lists
TypeListUnion(mlist) ==
    LET tl == Indices(mlist, "type")
    IN  UnionOf(UNION {mlist[tl[k]].typ.terms : k \in 1..Len(tl)})

\* ityp.embeddeds after the member loop and the type list
DeclaredEmbeddeds(mlist) ==
    LET ix == Indices(mlist, "embed")
        es == [k \in 1..Len(ix) |-> mlist[ix[k]].typ]
    IN  IF Indices(mlist, "type") = <<>> THEN es ELSE Append(es, TypeListUnion(mlist))

\* check.posMap[ityp] after the member loop and the type list
DeclaredPositions(i, mlist) ==
    LET ix == Indices(mlist, "embed")
        ps == [k \in 1..Len(ix) |-> PosOf(i, ix[k])]
        tl == Indices(mlist, "type")
    IN  IF tl = <<>> THEN ps ELSE Append(ps, PosOf(i, tl[1]))

\* ityp.embeddeds after sortTypes
SortedEmbeddeds(es) == sortTypes(es)

interfaceType(i) ==
    /\ ~ingested[i]
    /\ \A j \in Locals : j < i => ingested[j]
    /\ LET ms == DeclaredMethods(i, decl[i])
           es == DeclaredEmbeddeds(decl[i])
           ps == DeclaredPositions(i, decl[i])
       IN  /\ ingested' = [ingested EXCEPT ![i] = TRUE]
           /\ diags' = diags (+) MemberErrors(i, decl[i])
           /\ posMap' = [posMap EXCEPT ![i] = ps]
           /\ IF ms = <<>> /\ es = <<>>
              THEN /\ allMethods' = [allMethods EXCEPT ![i] = markComplete]
                   /\ UNCHANGED <<methods, embeddeds, delayed, declPos>>
              ELSE /\ \E sorted \in sortMethods(ms) :
                          methods' = [methods EXCEPT ![i] = sorted]
                   /\ embeddeds' = [embeddeds EXCEPT ![i] = SortedEmbeddeds(es)]
                   /\ declPos' = [declPos EXCEPT ![i] = Permute(ps, StablePerm(es))]
                   /\ delayed' = delayed (+) SetToBag({CompleteTask(i)})
                   /\ UNCHANGED allMethods
    /\ lastOp' = NoOp
    /\ UNCHANGED <<decl, version, allTypes, stack, panicMsg, finished, entered, outer,
                   checked, collisions>>

(* ------------------------------------------------------------------ *)
(* completeInterface                                                   *)
(* ------------------------------------------------------------------ *)

\* The locals of one call of completeInterface:
\*   ityp, check (FALSE: check = nil), i (the next element of ityp.embeddeds),
\*   methods, mpos (mpos[methods[k]]), todo, allTypes,
\*   src (which element of embeddeds gave methods[k], 0: declared explicitly)
Frame(ityp, check, acc) ==
    [ityp |-> ityp, check |-> check, i |-> 1, methods |-> acc.methods,
     mpos |-> acc.mpos, src |-> acc.src, todo |-> acc.todo, allTypes |-> TopType]

\* what addMethod reads and writes: the locals above, the delayed actions,
\* the reported errors, a panic
Acc(ms, mp, sr, td, dl, dg, co) ==
    [methods |-> ms, mpos |-> mp, src |-> sr, todo |-> td, delayed |-> dl,
     diags |-> dg, collisions |-> co, panic |-> NoPanic]

SeenIndexNever(ms, m) == 0

\* seen.insert(m): the index in methods of the method with m's Id, 0 if none
SeenIndex(ms, m) ==
    IF \E k \in 1..Len(ms) : Id(ms[k]) = Id(m)
    THEN CHOOSE k \in 1..Len(ms) : Id(ms[k]) = Id(m)
    ELSE 0

\* the condition under which the delayed action of addMethod reports
OverlapIsErrorSigOnly(m, other) == ~Identical(m.sig, other.sig)

OverlapIsError(m, other) == ~allowVersion(14) \/ ~Identical(m.sig, other.sig)

\* the method that stays when m meets other, already present
addMethod(acc, ityp, check, pos, m, explicit, idx) ==
    LET o == SeenIndex(acc.methods, m)
    IN  IF acc.panic # NoPanic THEN acc
        ELSE IF o = 0 THEN
            [acc EXCEPT !.methods = Append(@, m), !.mpos = Append(@, pos),
                        !.src = Append(@, idx)]
        ELSE IF explicit THEN
            IF ~check
            THEN [acc EXCEPT !.panic = "duplicate method"]
            ELSE [acc EXCEPT !.diags = @ (+) SetToBag(
                     {Diag("duplicate method", pos, m.name, acc.mpos[o])})]
        ELSE IF ~check
            THEN [acc EXCEPT !.todo = Append(Append(@, m), acc.methods[o]),
                             !.collisions = @ \cup
                                 {[ityp |-> ityp, idx |-> idx, oidx |-> acc.src[o],
                                   m |-> m, other |-> acc.methods[o], pos |-> pos,
                                   opos |-> acc.mpos[o], check |-> FALSE]}]
            ELSE [acc EXCEPT !.delayed = @ (+) SetToBag(
                     {OverlapTask(ityp, m, acc.methods[o], pos, acc.mpos[o])}),
                             !.collisions = @ \cup
                                 {[ityp |-> ityp, idx |-> idx, oidx |-> acc.src[o],
                                   m |-> m, other |-> acc.methods[o], pos |-> pos,
                                   opos |-> acc.mpos[o], check |-> TRUE]}]

RECURSIVE AddExplicitAsEmbedded(_, _, _, _)
AddExplicitAsEmbedded(acc, ityp, check, ms) ==
    IF ms = <<>> THEN acc
    ELSE AddExplicitAsEmbedded(
             addMethod(acc, ityp, check, Head(ms).pos, Head(ms), FALSE, 0),
             ityp, check, Tail(ms))

\* for _, m := range ityp.methods { addMethod(m.pos, m, true) }
RECURSIVE AddExplicit(_, _, _, _)
AddExplicit(acc, ityp, check, ms) ==
    IF ms = <<>> THEN acc
    ELSE AddExplicit(addMethod(acc, ityp, check, Head(ms).pos, Head(ms), TRUE, 0),
                     ityp, check, Tail(ms))

\* for _, m := range t.allMethods { addMethod(pos, m, false) }
RECURSIVE AddEmbedded(_, _, _, _, _, _)
AddEmbedded(acc, ityp, check, pos, ms, idx) ==
    IF ms = <<>> THEN acc
    ELSE AddEmbedded(addMethod(acc, ityp, check, pos, Head(ms), FALSE, idx),
                     ityp, check, pos, Tail(ms), idx)

MarkedNever(am, i) == am

\* ityp.allMethods = markComplete
Marked(am, i) == [am EXCEPT ![i] = markComplete]

\* The body of completeInterface after the assertion and up to the loop over
\* ityp.embeddeds: the mark and the explicit methods. dl: the delayed actions.
EnterBody(i, check, dl) ==
    LET acc == AddExplicit(Acc(<<>>, <<>>, <<>>, <<>>, dl, diags, collisions),
                           i, check, methods[i])
    IN  /\ allMethods' = Marked(allMethods, i)
        /\ entered' = [entered EXCEPT ![i] = @ + 1]
        /\ outer' = IF stack = <<>> THEN outer \cup {i} ELSE outer
        /\ checked' = IF check THEN checked \cup {i} ELSE checked \ {i}
        /\ delayed' = acc.delayed
        /\ diags' = acc.diags
        /\ collisions' = acc.collisions
        /\ IF acc.panic # NoPanic
           THEN /\ panicMsg' = acc.panic
                /\ stack' = <<>>
           ELSE /\ panicMsg' = NoPanic
                /\ stack' = Append(stack, Frame(i, check, acc))

\* completeInterface(check, pos, ityp) up to the loop over ityp.embeddeds
Enter(i, check, dl) ==
    IF ~allMethods[i].isnil
    THEN /\ panicMsg' = "assertion failed"
         /\ stack' = <<>>
         /\ delayed' = dl
         /\ UNCHANGED <<allMethods, diags, entered, outer, checked, collisions>>
    ELSE EnterBody(i, check, dl)

\* Checker.completeInterface without its guard, completeInterface without its
\* assertion
CompleteUnguarded(i, check, dl) == EnterBody(i, check, dl)

\* Checker.completeInterface that recomputes an interface that is complete
CompleteRecomputed(i, check, dl) ==
    IF ~check
    THEN /\ panicMsg' = "internal error: incomplete interface"
         /\ delayed' = dl
         /\ UNCHANGED <<allMethods, diags, stack, entered, outer, checked, collisions>>
    ELSE EnterBody(i, check, dl)

AlreadyCompleteNever(i) == FALSE

AlreadyCompleteNonEmpty(i) == ~allMethods[i].isnil /\ allMethods[i].list # <<>>

\* ityp.allMethods != nil
AlreadyComplete(i) == ~allMethods[i].isnil

\* Checker.completeInterface(pos, ityp); check: the receiver is not nil
CheckerCompleteInterface(i, check, dl) ==
    IF AlreadyComplete(i)
    THEN /\ delayed' = dl
         /\ panicMsg' = NoPanic
         /\ UNCHANGED <<allMethods, diags, stack, entered, outer, checked, collisions>>
    ELSE IF ~check
    THEN /\ panicMsg' = "internal error: incomplete interface"
         /\ delayed' = dl
         /\ UNCHANGED <<allMethods, diags, stack, entered, outer, checked, collisions>>
    ELSE Enter(i, check, dl)

AllIngested == \A i \in Locals : ingested[i]

\* a caller calls check.completeInterface, check possibly nil
Call(i, check) ==
    /\ AllIngested
    /\ stack = <<>>
    /\ lastOp' = Op("call", i, check)
    /\ CheckerCompleteInterface(i, check, delayed)
    /\ UNCHANGED <<decl, version, ingested, methods, embeddeds, allTypes, posMap, finished,
                   declPos>>

\* a caller that holds no Checker completes an interface that is not complete
Complete(i) ==
    /\ AllIngested
    /\ stack = <<>>
    /\ allMethods[i].isnil
    /\ lastOp' = Op("complete", i, FALSE)
    /\ Enter(i, FALSE, delayed)
    /\ UNCHANGED <<decl, version, ingested, methods, embeddeds, allTypes, posMap, finished,
                   declPos>>


Top == stack[Len(stack)]
Pop == SubSeq(stack, 1, Len(stack) - 1)
SetTop(f) == [stack EXCEPT ![Len(stack)] = f]

\* posList[i]: the position completeInterface takes for ityp.embeddeds[i]
EmbeddingPos(f) == IF f.check THEN posMap[f.ityp][f.i] ELSE 0

TypesOfNone(typ) == TopType

\* the types an element that is no interface contributes
TypesOf(typ) == TermSet(typ.terms)

SkippedNever(f, typ) == FALSE

\* an element that is no interface and is not accepted: it is skipped
Skipped(f, typ) ==
    \/ typ.k = "invalid"
    \/ typ.k \in {"typeparam", "other"} /\ f.check /\ ~allowVersion(18)

\* the error reported for a skipped element
SkipErrors(f, typ) ==
    IF typ.k = "typeparam" /\ f.check /\ ~allowVersion(18)
    THEN SetToBag({Diag("is a type parameter, not an interface", EmbeddingPos(f), "", 0)})
    ELSE IF typ.k = "other" /\ f.check /\ ~allowVersion(18)
    THEN SetToBag({Diag("is not an interface", EmbeddingPos(f), "", 0)})
    ELSE EmptyBag

NeedsCompletionNever(typ) == FALSE

NeedsCompletionAlways(typ) == typ.k = "interface"

\* the embedded element is an interface t with t.allMethods == nil
NeedsCompletion(typ) == typ.k = "interface" /\ allMethods[typ.id].isnil

\* one iteration of the loop over ityp.embeddeds; an embedded interface that
\* is not complete is completed first, by the recursive call
EmbedStep ==
    /\ stack # <<>>
    /\ Top.i <= Len(embeddeds[Top.ityp])
    /\ lastOp' = NoOp
    /\ LET f == Top
           typ == embeddeds[f.ityp][f.i]
       IN  IF NeedsCompletion(typ)
           THEN /\ Enter(typ.id, f.check, delayed)
                /\ UNCHANGED allTypes
           ELSE IF typ.k = "interface"
           THEN LET acc == AddEmbedded(
                               Acc(f.methods, f.mpos, f.src, f.todo, delayed, diags,
                                   collisions),
                               f.ityp, f.check, EmbeddingPos(f),
                               allMethods[typ.id].list, f.i)
                IN  /\ stack' = SetTop([f EXCEPT !.i = @ + 1,
                                                 !.methods = acc.methods,
                                                 !.mpos = acc.mpos,
                                                 !.src = acc.src,
                                                 !.todo = acc.todo,
                                                 !.allTypes = intersect(@, allTypes[typ.id])])
                    /\ delayed' = acc.delayed
                    /\ collisions' = acc.collisions
                    /\ UNCHANGED <<allMethods, allTypes, diags, panicMsg, entered, outer,
                                   checked>>
           ELSE IF Skipped(f, typ)
           THEN /\ stack' = SetTop([f EXCEPT !.i = @ + 1])
                /\ diags' = diags (+) SkipErrors(f, typ)
                /\ UNCHANGED <<allMethods, allTypes, delayed, panicMsg, entered, outer,
                               checked, collisions>>
           ELSE /\ stack' = SetTop([f EXCEPT !.i = @ + 1,
                                             !.allTypes = intersect(@, TypesOf(typ))])
                /\ UNCHANGED <<allMethods, allTypes, delayed, diags, panicMsg, entered,
                               outer, checked, collisions>>
    /\ UNCHANGED <<decl, version, ingested, methods, embeddeds, posMap, finished, declPos>>

TodoMismatchAny(todo) == todo # <<>>

TodoMismatchNever(todo) == FALSE

\* the todo list holds a method and the method it met whose signatures differ
TodoMismatch(todo) ==
    \E k \in 1..Len(todo) :
        k % 2 = 1 /\ ~Identical(todo[k].sig, todo[k + 1].sig)

FinalMethodsUnsorted(ms) == {ms}

\* sortMethods(methods)
FinalMethods(ms) == sortMethods(ms)

\* the end of completeInterface: the todo list, the sort, the two stores
Finish ==
    /\ stack # <<>>
    /\ Top.i > Len(embeddeds[Top.ityp])
    /\ lastOp' = NoOp
    /\ LET f == Top
       IN  IF TodoMismatch(f.todo)
           THEN /\ panicMsg' = "duplicate method"
                /\ stack' = <<>>
                /\ UNCHANGED <<allMethods, allTypes, finished>>
           ELSE /\ panicMsg' = panicMsg
                /\ stack' = Pop
                /\ finished' = finished \cup {f.ityp}
                /\ IF f.methods # <<>>
                   THEN \E sorted \in FinalMethods(f.methods) :
                            allMethods' = [allMethods EXCEPT ![f.ityp] = MethodList(sorted)]
                   ELSE UNCHANGED allMethods
                /\ allTypes' = [allTypes EXCEPT ![f.ityp] = f.allTypes]
    /\ UNCHANGED <<decl, version, ingested, methods, embeddeds, posMap, declPos, delayed,
                   diags, entered, outer, checked, collisions>>

(* ------------------------------------------------------------------ *)
(* The delayed actions                                                 *)
(* ------------------------------------------------------------------ *)

OverlapErrorsNone(t) == EmptyBag

\* the error the delayed action of addMethod reports
OverlapErrors(t) ==
    IF OverlapIsError(t.m, t.other)
    THEN SetToBag({Diag("duplicate method", t.pos, t.m.name, t.opos)})
    ELSE EmptyBag

\* one action given to check.later runs
Delayed(t) ==
    /\ AllIngested
    /\ stack = <<>>
    /\ BagIn(t, delayed)
    /\ LET dl == delayed (-) SetToBag({t})
       IN  IF t.kind = "complete"
           THEN /\ lastOp' = Op("call", t.ityp, TRUE)
                /\ CheckerCompleteInterface(t.ityp, TRUE, dl)
           ELSE /\ lastOp' = NoOp
                /\ delayed' = dl
                /\ diags' = diags (+) OverlapErrors(t)
                /\ panicMsg' = NoPanic
                /\ UNCHANGED <<allMethods, stack, entered, outer, checked, collisions>>
    /\ UNCHANGED <<decl, version, ingested, methods, embeddeds, allTypes, posMap, finished,
                   declPos>>


(* ------------------------------------------------------------------ *)
(* Programs and specifications                                         *)
(* ------------------------------------------------------------------ *)

\* language versions on both sides of allowVersion(1, 14)
OverlapVersions == {13, 14}

\* language versions on both sides of allowVersion(1, 18)
GenericsVersions == {17, 18}

SeqsUpTo(S, n) == UNION {[1..k -> S] : k \in 0..n}

\* members of a declaration: methods and embedded named interfaces
MethodPool ==
    {Method("M", 1), Method("m", 1)} \cup {Embed(NamedInterface(j)) : j \in Ifaces}

\* members of a declaration: embedded unions, type parameters and interfaces,
\* and a method
TypePool ==
    {Embed(UnionOf({"int", "string"})), Embed(UnionOf({"string", "bool"})),
     Embed(TypeParamP), Method("M", 1)}
    \cup {Embed(NamedInterface(j)) : j \in Locals}

\* members of a declaration: a method, members that interfaceType rejects,
\* entries of two type lists, embedded interfaces
ErrorPool ==
    {Method("M", 1), Blank, NonSig, TypeEntry("int", 1), TypeEntry("string", 2),
     Embed(NamedInterface(1)), Embed(NamedInterface(Imported))}

\* a language version before go1.14
ErrorVersions == {13}

TotalMembers(d) == Len(d[1]) + Len(d[2])

Programs(pool) ==
    {d \in [Locals -> SeqsUpTo(pool, MaxMembers)] : TotalMembers(d) <= MaxMembers}

InitState(d, v) ==
    /\ decl = d
    /\ version = v
    /\ ingested = [i \in Locals |-> FALSE]
    /\ methods = [i \in Ifaces |-> IF i = Imported THEN ImportedMethods ELSE <<>>]
    /\ embeddeds = [i \in Ifaces |-> <<>>]
    /\ allMethods = [i \in Ifaces |->
                        IF i = Imported THEN MethodList(ImportedMethods) ELSE NilMethods]
    /\ allTypes = [i \in Ifaces |-> TopType]
    /\ posMap = [i \in Ifaces |-> <<>>]
    /\ delayed = EmptyBag
    /\ diags = EmptyBag
    /\ stack = <<>>
    /\ panicMsg = NoPanic
    /\ finished = {Imported}
    /\ declPos = [i \in Ifaces |-> <<>>]
    /\ entered = [i \in Ifaces |-> 0]
    /\ outer = {}
    /\ checked = {}
    /\ collisions = {}
    /\ lastOp = NoOp

Init ==
    \E d \in Programs(MethodPool), v \in OverlapVersions : InitState(d, v)

InitTypes ==
    \E d \in Programs(TypePool), v \in GenericsVersions : InitState(d, v)

InitErrors ==
    \E d \in Programs(ErrorPool), v \in ErrorVersions : InitState(d, v)

Next ==
    \/ \E i \in Locals : interfaceType(i)
    \/ \E t \in BagToSet(delayed) : Delayed(t)
    \/ \E i \in Ifaces, check \in BOOLEAN : Call(i, check)
    \/ \E i \in Ifaces : Complete(i)
    \/ EmbedStep
    \/ Finish

Spec == Init /\ [][Next]_vars

SpecTypes == InitTypes /\ [][Next]_vars

SpecErrors == InitErrors /\ [][Next]_vars

\* members of a declaration: a method and embedded named interfaces
CheckingPool == {Method("M", 1)} \cup {Embed(NamedInterface(j)) : j \in Ifaces}

InitChecking ==
    \E d \in {p \in [Locals -> SeqsUpTo(CheckingPool, MaxCheckedMembers)] :
                 TotalMembers(p) <= MaxCheckedMembers},
       v \in OverlapVersions : InitState(d, v)

\* type checking of the package alone: the declarations are collected, then
\* the delayed actions run, in any order, until none is left
NextChecking ==
    \/ \E i \in Locals : interfaceType(i)
    \/ \E t \in BagToSet(delayed) : Delayed(t)
    \/ EmbedStep
    \/ Finish

\* type checking alone, of declarations with embedded unions and type parameters
SpecCheckingTypes == InitTypes /\ [][NextChecking]_vars

SpecChecking == InitChecking /\ [][NextChecking]_vars /\ WF_vars(NextChecking)


(* ------------------------------------------------------------------ *)
(* Properties                                                          *)
(* ------------------------------------------------------------------ *)

OnStack(i) == \E k \in 1..Len(stack) : stack[k].ityp = i

\* the completion of i was ended by a panic
Aborted(i) == entered[i] > 0 /\ i \notin finished /\ ~OnStack(i)

\* the interfaces that i embeds
Embedded(i) ==
    {embeddeds[i][k].id : k \in {n \in 1..Len(embeddeds[i]) : embeddeds[i][n].k = "interface"}}

RECURSIVE ReachN(_, _)
ReachN(S, n) ==
    IF n = 0 THEN S ELSE ReachN(S \cup UNION {Embedded(j) : j \in S}, n - 1)

\* the interfaces i reaches by embedding, i among them
Reach(i) == ReachN({i}, Cardinality(Ifaces))

\* i embeds itself, directly or transitively
OnCycle(i) == \E j \in Embedded(i) : i \in Reach(j)

KeySet(list) == {Id(list[k]) : k \in 1..Len(list)}

\* C1: a call of complete on an interface whose allMethods is already set
\* changes neither allMethods nor allTypes of any interface, reports no error,
\* schedules no delayed action and does not panic.
IdempotentComplete ==
    [][(lastOp'.op = "call" /\ lastOp'.done) =>
          /\ allMethods' = allMethods
          /\ allTypes' = allTypes
          /\ diags' = diags
          /\ delayed' \sqsubseteq delayed
          /\ stack' = <<>>
          /\ panicMsg' = NoPanic]_vars

\* a second call on a local interface whose completion stored methods
IdempotentWitness ==
    /\ lastOp.op = "call"
    /\ lastOp.done
    /\ lastOp.ityp \in finished \cap Locals
    /\ allMethods[lastOp.ityp].list # <<>>
    /\ delayed = EmptyBag

EnteredOnce ==
    /\ \A i \in Ifaces : entered[i] <= 1
    /\ \A a, b \in 1..Len(stack) : a # b => stack[a].ityp # stack[b].ityp

RECURSIVE Remaining(_)
\* the iterations and returns the active calls have before them
Remaining(st) ==
    IF st = <<>> THEN 0
    ELSE Len(embeddeds[Head(st).ityp]) + 2 - Head(st).i + Remaining(Tail(st))

\* what is left to do: interfaces not entered yet weigh more than any call
Measure ==
    Cardinality({i \in Ifaces : allMethods[i].isnil}) * (MaxMembers + 2)
    + Remaining(stack)

\* C2: the body of completeInterface is entered at most once for each
\* interface and no interface is twice among the active calls; an active call
\* always has a next step, and every step of a call lowers a measure that is
\* a natural number: every call returns (or panics), whatever the embedding
\* graph.
CycleTermination ==
    /\ []EnteredOnce
    /\ [](stack # <<>> => ENABLED (EmbedStep \/ Finish))
    /\ [][(stack # <<>> \/ stack' # <<>>) => Measure' < Measure]_vars

\* the recursion is two calls deep and meets the interface it started from
CycleTerminationWitness ==
    /\ Len(stack) >= 2
    /\ Top.i <= Len(embeddeds[Top.ityp])
    /\ embeddeds[Top.ityp][Top.i].k = "interface"
    /\ embeddeds[Top.ityp][Top.i].id = stack[1].ityp

\* the keys of the explicit methods of every interface i reaches: the keys of
\* the closure of i in the graph without the edges back to i
ReachKeys(i) == UNION {KeySet(methods[j]) : j \in Reach(i)}

KeyLess(a, b) ==
    IF a[1] # b[1] THEN NameOrd(a[1]) < NameOrd(b[1])
    ELSE a[2] # b[2] /\ (a[2] = "" \/ (b[2] # "" /\ PkgOrd(a[2]) < PkgOrd(b[2])))

RECURSIVE SortedKeys(_)
\* the keys of S in the canonical order
SortedKeys(S) ==
    IF S = {} THEN <<>>
    ELSE LET first == CHOOSE a \in S : \A b \in S \ {a} : KeyLess(a, b)
         IN  <<first>> \o SortedKeys(S \ {first})

Keys(list) == [k \in 1..Len(list) |-> Id(list[k])]

\* the keys the members of the declaration of i give, as a set: those of its
\* methods and those of the closures of the interfaces it embeds
DeclKeys(i) ==
    {Id(NewFunc(0, LocalPkg, decl[i][k].name, decl[i][k].sig)) :
        k \in {n \in 1..Len(decl[i]) : decl[i][n].kind = "method"}}
    \cup UNION {KeySet(allMethods[decl[i][k].typ.id].list) :
        k \in {n \in 1..Len(decl[i]) :
                 decl[i][n].kind = "embed" /\ decl[i][n].typ.k = "interface"}}

ClosureSortedUnique ==
    \A i \in finished :
        \A a, b \in 1..Len(allMethods[i].list) :
            a < b => /\ less(allMethods[i].list[a], allMethods[i].list[b])
                     /\ Id(allMethods[i].list[a]) # Id(allMethods[i].list[b])

\* a closure that holds an unexported name of two packages besides an
\* exported one
ClosureSortedUniqueWitness ==
    \E i \in finished \cap Locals :
        /\ Len(allMethods[i].list) >= 3
        /\ \E a, b \in 1..Len(allMethods[i].list) :
               /\ allMethods[i].list[a].name = allMethods[i].list[b].name
               /\ allMethods[i].list[a].pkg # allMethods[i].list[b].pkg


\* all interfaces are complete and no call is active
AllComplete ==
    /\ AllIngested
    /\ stack = <<>>
    /\ \A i \in Locals : ~allMethods[i].isnil

\* the type set an embedded element of the completed interface i stands for;
\* an element completeInterface rejects stands for no restriction
ElementTypes(i, typ) ==
    IF typ.k = "interface" THEN allTypes[typ.id]
    ELSE IF typ.k = "invalid" THEN TopType
    ELSE IF typ.k \in {"typeparam", "other"} /\ i \in checked /\ version < 18 THEN TopType
    ELSE TermSet(typ.terms)

\* the intersection of the type sets of the embedded elements of i
EmbeddedTypes(i) ==
    LET cs == {ElementTypes(i, embeddeds[i][k]) : k \in 1..Len(embeddeds[i])}
        restricting == {c \in cs : ~c.top}
    IN  IF restricting = {} THEN TopType
        ELSE TermSet({x \in UNION {c.terms : c \in restricting} :
                         \A c \in restricting : x \in c.terms})

\* C6 as stated: once all completions have returned, allTypes of every
\* completed interface is the intersection of the type sets of its embedded
\* elements, an embedded interface standing for its own allTypes.
TypeSetAll ==
    AllComplete => \A i \in finished \cap Locals : allTypes[i] = EmbeddedTypes(i)

\* C6 amended: the same, for the interfaces that are on no embedding cycle or
\* whose completion was entered from outside the recursion.
TypeSetAcyclic ==
    AllComplete =>
        \A i \in finished \cap Locals :
            (i \in outer \/ ~OnCycle(i)) => allTypes[i] = EmbeddedTypes(i)

\* an interface on no cycle that embeds an interface and whose type set is the
\* proper intersection {string} of two unions
TypeSetWitness ==
    /\ AllComplete
    /\ \E i \in finished \cap Locals :
           /\ ~OnCycle(i)
           /\ \E j \in Embedded(i) : ~allTypes[j].top /\ allTypes[j] # allTypes[i]
           /\ allTypes[i] = TermSet({"string"})

\* C7: once the call of completeInterface for an interface has returned, no
\* step changes its allMethods or its allTypes.
MonotonicCompletion ==
    [][\A i \in finished :
          allMethods'[i] = allMethods[i] /\ allTypes'[i] = allTypes[i]]_vars

\* the completion of an interface has read an embedded interface that was
\* complete before, with a method and a restricted type set, and runs on
MonotonicWitness ==
    /\ stack # <<>>
    /\ \E k \in 1..Len(embeddeds[Top.ityp]) :
           /\ k < Top.i
           /\ embeddeds[Top.ityp][k].k = "interface"
           /\ embeddeds[Top.ityp][k].id \in (finished \cap Locals) \ outer
           /\ allMethods[embeddeds[Top.ityp][k].id].list # <<>>
           /\ ~allTypes[embeddeds[Top.ityp][k].id].top

\* the first method of the sorted explicit methods of i with the key of m
FirstWithKey(i, m) ==
    methods[i][CHOOSE a \in 1..Len(methods[i]) :
                   /\ Id(methods[i][a]) = Id(m)
                   /\ \A c \in 1..Len(methods[i]) : Id(methods[i][c]) = Id(m) => a <= c]

\* the first declared among the explicit methods of i with the key of m
FirstDeclaredWithKey(i, m) ==
    CHOOSE f \in {methods[i][a] : a \in 1..Len(methods[i])} :
        /\ Id(f) = Id(m)
        /\ \A c \in 1..Len(methods[i]) : Id(methods[i][c]) = Id(m) => f.pos <= methods[i][c].pos

\* the methods of the closure of i with the key of m
Slots(i, m) ==
    {k \in 1..Len(allMethods[i].list) : Id(allMethods[i].list[k]) = Id(m)}

\* C8 as stated: of explicit methods with one key the first declared is the
\* slot of the closure; each other one is reported once, with both positions.
ExplicitDuplicateFirstDeclared ==
    \A i \in finished \cap checked \cap Locals :
        \A b \in 1..Len(methods[i]) :
            LET m == methods[i][b]
                first == FirstDeclaredWithKey(i, m)
            IN  /\ \A k \in Slots(i, m) : allMethods[i].list[k] = first
                /\ Cardinality(Slots(i, m)) = 1
                /\ m # first =>
                       CopiesIn(Diag("duplicate method", m.pos, m.name, first.pos), diags) = 1

\* C8 amended: of explicit methods with one key the first of the sorted
\* explicit methods is the slot of the closure; each other one is reported
\* once, with both positions.
ExplicitDuplicateFirstSorted ==
    \A i \in finished \cap checked \cap Locals :
        \A b \in 1..Len(methods[i]) :
            LET m == methods[i][b]
                first == FirstWithKey(i, m)
            IN  /\ \A k \in Slots(i, m) : allMethods[i].list[k] = first
                /\ Cardinality(Slots(i, m)) = 1
                /\ m # first =>
                       CopiesIn(Diag("duplicate method", m.pos, m.name, first.pos), diags) = 1

\* an interface completed with a checker declares two methods of one key
ExplicitDuplicateWitness ==
    \E i \in finished \cap checked \cap Locals :
        \E a, b \in 1..Len(methods[i]) :
            /\ a < b
            /\ Id(methods[i][a]) = Id(methods[i][b])
            /\ Cardinality(Slots(i, methods[i][a])) = 1

\* no call is active and every delayed action has run
AllDelayedRun == AllIngested /\ stack = <<>> /\ delayed = EmptyBag

\* the error the delayed action reports for the collision c
DiagOf(c) == Diag("duplicate method", c.pos, c.m.name, c.opos)

OverlapPositions ==
    AllDelayedRun =>
        \A c \in collisions :
            (c.check /\ c.idx # 0 /\ c.oidx # 0 /\ c.m.sig # c.other.sig) =>
                CopiesIn(Diag("duplicate method", declPos[c.ityp][c.idx], c.m.name,
                              declPos[c.ityp][c.oidx]), diags) = 1

\* no two explicit methods of one interface that i reaches have one key, and
\* methods of one key of two interfaces that i reaches have one signature
ConflictFree(i) ==
    \A j, k \in Reach(i) :
        \A a \in 1..Len(methods[j]), b \in 1..Len(methods[k]) :
            (Id(methods[j][a]) = Id(methods[k][b]) /\ <<j, a>> # <<k, b>>) =>
                (j # k /\ Identical(methods[j][a].sig, methods[k][b].sig))

IncompletePanic == "internal error: incomplete interface"

\* C11 as stated: a call of complete without a checker on an interface that
\* is not complete and reaches no conflict does not fail and stores the
\* closure.
LazyNoSinkCompletes ==
    (/\ lastOp.op \in {"call", "complete"}
     /\ ~lastOp.check
     /\ ~lastOp.done
     /\ ConflictFree(lastOp.ityp)) =>
        (panicMsg = NoPanic /\ ~allMethods[lastOp.ityp].isnil)

\* C11 amended: Checker.completeInterface without a checker on an interface
\* that is not complete panics and stores nothing; completeInterface entered
\* without a checker on an interface that reaches no conflict does not panic,
\* and when it has returned for the interface it was called for, the closure
\* and the type set are the ones its declaration determines.
LazyNoSinkDirect ==
    /\ (lastOp.op = "call" /\ ~lastOp.check /\ ~lastOp.done) =>
           /\ panicMsg = IncompletePanic
           /\ allMethods[lastOp.ityp].isnil
           /\ stack = <<>>
    /\ \A i \in Locals \ checked :
           (entered[i] > 0 /\ ConflictFree(i)) =>
               /\ ~Aborted(i)
               /\ i \in finished \cap outer =>
                      /\ Keys(allMethods[i].list) = SortedKeys(DeclKeys(i))
                      /\ allTypes[i] = EmbeddedTypes(i)

\* completeInterface, called without a checker, has returned for an interface
\* that embeds another one: the closure holds a method and the type set is
\* restricted
LazyNoSinkWitness ==
    \E i \in (finished \cap outer \cap Locals) \ checked :
        /\ ConflictFree(i)
        /\ Embedded(i) \cap Locals # {}
        /\ allMethods[i].list # <<>>
        /\ ~allTypes[i].top

DuplicatePanic == "duplicate method"

\* i declares two methods of one key
ExplicitDuplicate(i) ==
    \E a, b \in 1..Len(methods[i]) : a # b /\ Id(methods[i][a]) = Id(methods[i][b])

\* the collisions of inherited methods found by the completion of i, entered
\* without a checker, whose signatures differ
NoSinkMismatches(i) ==
    {c \in collisions : c.ityp = i /\ ~c.check /\ ~Identical(c.m.sig, c.other.sig)}

\* a completion entered without a checker reports no error and gives no
\* action to check.later
NoSinkSilent ==
    /\ (stack # <<>> /\ ~Top.check) => (diags' = diags /\ delayed' = delayed)
    /\ lastOp'.op = "complete" => (diags' = diags /\ delayed' = delayed)

\* C12: a completion without a checker compares the signatures of an
\* inherited method and the method of its key it met before it returns: it
\* does not return if they differ, it panics at its end only if they differ for
\* some collision, and it neither reports an error nor defers an action.
NoSinkConflictFatal ==
    /\ [](\A i \in Locals : NoSinkMismatches(i) # {} => i \notin finished)
    /\ [](\A i \in Locals : (NoSinkMismatches(i) # {} /\ ~OnStack(i)) => Aborted(i))
    /\ []((panicMsg = DuplicatePanic /\ lastOp.op = "none") =>
             \E i \in Locals \ checked :
                 Aborted(i) /\ (ExplicitDuplicate(i) \/ NoSinkMismatches(i) # {}))
    /\ [][NoSinkSilent]_vars

\* a completion without a checker has panicked for an inherited method that
\* met a method of another signature; no method is declared twice
NoSinkConflictWitness ==
    /\ panicMsg = DuplicatePanic
    /\ stack = <<>>
    /\ \E i \in Locals \ checked :
           /\ Aborted(i)
           /\ ~ExplicitDuplicate(i)
           /\ NoSinkMismatches(i) # {}

\* the members of the declaration of i of the given kinds
MembersOf(i, kinds) == {k \in 1..Len(decl[i]) : decl[i][k].kind \in kinds}

\* the method of the closure of the first element of embeddeds[i] that is an
\* interface whose closure has the key of m
FirstEmbeddedWithKey(i, m) ==
    LET has(e) == /\ embeddeds[i][e].k = "interface"
                  /\ Id(m) \in KeySet(allMethods[embeddeds[i][e].id].list)
        e == CHOOSE x \in 1..Len(embeddeds[i]) :
                 has(x) /\ \A y \in 1..Len(embeddeds[i]) : has(y) => x <= y
        l == allMethods[embeddeds[i][e].id].list
    IN  l[CHOOSE k \in 1..Len(l) : Id(l[k]) = Id(m)]

\* what interfaceType keeps of the declaration of i: the members with a
\* signature; each member it rejects with an error is reported once
DeclarationRecovered(i) ==
    /\ KeySet(methods[i]) =
           {Id(NewFunc(0, LocalPkg, decl[i][k].name, decl[i][k].sig)) :
               k \in MembersOf(i, {"method"})}
    /\ Len(methods[i]) = Cardinality(MembersOf(i, {"method"}))
    /\ \A k \in MembersOf(i, {"blank"}) :
           CopiesIn(Diag("invalid method name _", PosOf(i, k), "_", 0), diags) = 1
    /\ \A k \in MembersOf(i, {"nonsig"}) :
           CopiesIn(Diag("is not a method signature", PosOf(i, k), "", 0), diags) = 1

\* the closure of i holds one method for each key of its explicit methods and
\* of the closures it embeds: the first of its explicit methods, else the
\* method of the first embedded interface that has the key
ClosureRecovered(i) ==
    /\ ~allMethods[i].isnil
    /\ \A b \in 1..Len(methods[i]) :
           /\ Cardinality(Slots(i, methods[i][b])) = 1
           /\ \A k \in Slots(i, methods[i][b]) :
                  allMethods[i].list[k] = FirstWithKey(i, methods[i][b])
    /\ KeySet(allMethods[i].list) \subseteq
           KeySet(methods[i]) \cup UNION {KeySet(allMethods[j].list) : j \in Embedded(i)}
    /\ (i \in outer \/ ~OnCycle(i)) =>
           /\ \A j \in Embedded(i) :
                  KeySet(allMethods[j].list) \subseteq KeySet(allMethods[i].list)
           /\ \A k \in 1..Len(allMethods[i].list) :
                  Id(allMethods[i].list[k]) \notin KeySet(methods[i]) =>
                      allMethods[i].list[k] = FirstEmbeddedWithKey(i, allMethods[i].list[k])

\* a step of a call with a checker does not panic
SinkNeverPanics ==
    ((lastOp'.op = "call" /\ lastOp'.check) \/ (stack # <<>> /\ Top.check)) =>
        panicMsg' = NoPanic

RECURSIVE ReachWithoutN(_, _, _)
ReachWithoutN(S, i, n) ==
    IF n = 0 THEN S
    ELSE ReachWithoutN(S \cup (UNION {Embedded(j) : j \in S} \ {i}), i, n - 1)

\* the interfaces j reaches by embedding in the graph without i
ReachWithout(j, i) == IF j = i THEN {} ELSE ReachWithoutN({j}, i, Cardinality(Ifaces))

\* the signatures of the methods with the key of m that the element e of
\* embeddeds[i] brings in the embedding graph without the edges back to i
SigsThrough(i, e, m) ==
    IF embeddeds[i][e].k # "interface" THEN {}
    ELSE UNION {{methods[j][k].sig :
                    k \in {x \in 1..Len(methods[j]) : Id(methods[j][x]) = Id(m)}} :
                j \in ReachWithout(embeddeds[i][e].id, i)}

\* the ways the key of m comes to i: 0 for its explicit methods, e for the
\* element e of embeddeds[i]
SourcesOf(i, m) ==
    {e \in 1..Len(embeddeds[i]) : SigsThrough(i, e, m) # {}}
    \cup (IF Id(m) \in KeySet(methods[i]) THEN {0} ELSE {})

SigsOf(i, e, m) ==
    IF e = 0
    THEN {methods[i][k].sig : k \in {x \in 1..Len(methods[i]) : Id(methods[i][x]) = Id(m)}}
    ELSE SigsThrough(i, e, m)

\* the key of m comes to i in two ways, and the version forbids it or the two
\* ways bring one signature each and these differ
GenuineOverlap(i, m) ==
    \E a, b \in SourcesOf(i, m) :
        /\ a # b
        /\ b # 0
        /\ \/ version < 14
           \/ /\ Cardinality(SigsOf(i, a, m)) = 1
              /\ Cardinality(SigsOf(i, b, m)) = 1
              /\ SigsOf(i, a, m) # SigsOf(i, b, m)

AllMethods == UNION {{methods[j][k] : k \in 1..Len(methods[j])} : j \in Ifaces}

\* an error for an inherited method of the key of m was reported at an
\* element of embeddeds[i]
OverlapReported(i, m) ==
    \E d \in BagToSet(diags) :
        /\ d.msg = "duplicate method"
        /\ d.name = m.name
        /\ \E e \in 1..Len(posMap[i]) : posMap[i][e] = d.pos

\* every explicit method of i after the first of its key was reported
DuplicatesReported(i) ==
    \A b \in 1..Len(methods[i]) :
        methods[i][b] # FirstWithKey(i, methods[i][b]) =>
            BagIn(Diag("duplicate method", methods[i][b].pos, methods[i][b].name,
                       FirstWithKey(i, methods[i][b]).pos), diags)

\* type checking is over: no delayed action is left and every interface is
\* complete
CheckingDone ==
    /\ AllIngested
    /\ stack = <<>>
    /\ delayed = EmptyBag
    /\ panicMsg = NoPanic
    /\ \A i \in Locals : ~allMethods[i].isnil

AssertionPanic == "assertion failed"

\* a step that enters the body of completeInterface for i finds allMethods of
\* i nil, is the first to enter it, and leaves allMethods of i set
EntersUnresolved ==
    \A i \in Ifaces :
        entered'[i] # entered[i] =>
            /\ allMethods[i].isnil
            /\ entered[i] = 0
            /\ entered'[i] = 1
            /\ ~allMethods'[i].isnil

\* C15: the body of completeInterface is entered only for an interface whose
\* allMethods is nil, the assertion at its entry never fails, and the body
\* runs at most once for each interface, whatever the order of the delayed
\* actions and whatever the embedding graph.
SingleCompletion ==
    /\ [](panicMsg # AssertionPanic)
    /\ [][EntersUnresolved]_vars

\* the delayed action of an interface that was completed inside the recursion
\* of another completion has run and found it complete
SingleCompletionWitness ==
    /\ lastOp.op = "call"
    /\ lastOp.check
    /\ lastOp.done
    /\ lastOp.ityp \in (finished \cap Locals) \ outer
    /\ entered[lastOp.ityp] = 1
    /\ OnCycle(lastOp.ityp)
    /\ delayed = EmptyBag

\* allMethods and allTypes of i stay as they are
Final(i) == allMethods'[i] = allMethods[i] /\ allTypes'[i] = allTypes[i]

\* C16 as stated: once allMethods of an interface is not nil, its allMethods
\* and its allTypes have their final values.
SetMeansFinal ==
    [][\A i \in Ifaces : ~allMethods[i].isnil => Final(i)]_vars

\* C16 amended: once allMethods of an interface is not nil and no call of
\* completeInterface for it is active, its allMethods and its allTypes have
\* their final values; while the call is active, allMethods is the empty mark
\* and allTypes is nil.
SetAndReturnedMeansFinal ==
    /\ [][\A i \in Ifaces : (~allMethods[i].isnil /\ ~OnStack(i)) => Final(i)]_vars
    /\ [](\A i \in Ifaces : OnStack(i) => (allMethods[i] = markComplete /\ allTypes[i].top))

\* the completion of an interface has read the closure of an embedded
\* interface that was complete and had methods, and runs on
SetMeansFinalWitness ==
    /\ stack # <<>>
    /\ \E k \in 1..Len(embeddeds[Top.ityp]) :
           /\ k < Top.i
           /\ embeddeds[Top.ityp][k].k = "interface"
           /\ embeddeds[Top.ityp][k].id \in Locals
           /\ ~OnStack(embeddeds[Top.ityp][k].id)
           /\ allMethods[embeddeds[Top.ityp][k].id].list # <<>>
           /\ KeySet(allMethods[embeddeds[Top.ityp][k].id].list) \subseteq KeySet(Top.methods)

\* C17: when completeInterface comes to the element i of ityp.embeddeds, the
\* position it takes for it is the position at which that element was
\* declared.
EmbeddingPositionsAligned ==
    (/\ stack # <<>>
     /\ Top.check
     /\ Top.i <= Len(embeddeds[Top.ityp])) =>
        EmbeddingPos(Top) = declPos[Top.ityp][Top.i]

\* the type sets of the elements, other than interfaces, that the interfaces
\* that i reaches embed and that a completion with a checker accepts
ReachTerms(i) ==
    UNION {{TermSet(embeddeds[j][e].terms) :
               e \in {x \in 1..Len(embeddeds[j]) :
                        /\ embeddeds[j][x].k \in {"union", "typeparam", "other"}
                        /\ (embeddeds[j][x].k = "union" \/ version >= 18)}} :
           j \in Reach(i)}

\* their intersection
ReachTypes(i) ==
    IF ReachTerms(i) = {} THEN TopType
    ELSE TermSet({x \in UNION {c.terms : c \in ReachTerms(i)} :
                     \A c \in ReachTerms(i) : x \in c.terms})

\* the closure and the type set that the completion of i computes when its
\* delayed action is the first to run
FirstRunResult(i) ==
    /\ Keys(allMethods[i].list) = SortedKeys(ReachKeys(i))
    /\ allTypes[i] = ReachTypes(i)

\* C18 as stated: once the delayed actions have run, every interface has the
\* closure and the type set that it has when its own delayed action runs
\* first: the result does not depend on the order of the delayed actions.
TaskOrderDeterminism ==
    CheckingDone => \A i \in Locals : FirstRunResult(i)

\* C18 amended: the same, for the interfaces that reach no embedding cycle;
\* and every interface whose delayed action runs first has that result.
TaskOrderDeterminismAcyclic ==
    /\ CheckingDone =>
           \A i \in Locals : (\A j \in Reach(i) : ~OnCycle(j)) => FirstRunResult(i)
    /\ \A i \in Locals : (stack = <<>> /\ outer = {i} /\ i \in finished) => FirstRunResult(i)

\* the delayed action of an interface ran before the one of an interface it
\* embeds; its closure has a method and its type set is restricted
TaskOrderWitness ==
    /\ CheckingDone
    /\ \E i \in Locals \cap outer :
           /\ \A j \in Reach(i) : ~OnCycle(j)
           /\ \E j \in (Embedded(i) \cap Locals) \ outer : ~allMethods[j].isnil
           /\ allMethods[i].list # <<>>
           /\ ~allTypes[i].top

\* the elements of embeddeds[i] that are type parameters or types that are
\* neither interfaces nor unions nor invalid
GatedElements(i) ==
    {e \in 1..Len(embeddeds[i]) : embeddeds[i][e].k \in {"typeparam", "other"}}

\* the type set of i is the intersection of the type sets of the elements of
\* embeddeds[i] other than the gated and the invalid ones
UngatedTypes(i) ==
    LET cs == {IF embeddeds[i][e].k = "interface" THEN allTypes[embeddeds[i][e].id]
               ELSE TermSet(embeddeds[i][e].terms) :
                  e \in {x \in 1..Len(embeddeds[i]) :
                           embeddeds[i][x].k \in {"interface", "union"}}}
        restricting == {c \in cs : ~c.top}
    IN  IF restricting = {} THEN TopType
        ELSE TermSet({x \in UNION {c.terms : c \in restricting} :
                         \A c \in restricting : x \in c.terms})

GateError(typ) ==
    IF typ.k = "typeparam" THEN "is a type parameter, not an interface"
    ELSE "is not an interface"

\* C19: before go1.18 a completion with a checker reports one error for each
\* embedded type parameter and each embedded type that is no interface, at
\* the position of that element; the element adds nothing to the type set
\* and the other elements are processed.
PreGenericsGate ==
    \A i \in finished \cap checked \cap Locals :
        (version < 18 /\ (i \in outer \/ ~OnCycle(i))) =>
            /\ allTypes[i] = UngatedTypes(i)
            /\ \A e \in GatedElements(i) :
                   CopiesIn(Diag(GateError(embeddeds[i][e]), declPos[i][e], "", 0), diags)
                       = Cardinality({x \in GatedElements(i) :
                                         embeddeds[i][x] = embeddeds[i][e]
                                         /\ declPos[i][x] = declPos[i][e]})

\* a call of Checker.completeInterface for an interface whose completion a
\* panic has ended returns at once
CallAfterAbort ==
    \A i \in Locals :
        (lastOp'.op = "call" /\ lastOp'.ityp = i /\ Aborted(i)) =>
            /\ allMethods' = allMethods
            /\ allTypes' = allTypes
            /\ diags' = diags
            /\ delayed' \sqsubseteq delayed
            /\ entered' = entered
            /\ stack' = <<>>
            /\ panicMsg' = NoPanic

\* C20: an interface whose completion without a checker was ended by a panic
\* keeps the empty mark as allMethods and nil as allTypes, and every later
\* call of complete for it returns at once, computing nothing and not
\* panicking.
AbortLeavesMarked ==
    /\ [](\A i \in Locals : Aborted(i) => (allMethods[i] = markComplete /\ allTypes[i].top))
    /\ [](\A i \in Locals : Aborted(i) => i \notin checked)
    /\ [][CallAfterAbort]_vars

\* complete was called, with a checker, for an interface that declares
\* methods and whose completion without a checker had panicked
AbortWitness ==
    /\ lastOp.op = "call"
    /\ lastOp.check
    /\ lastOp.done
    /\ lastOp.ityp \in Locals
    /\ Aborted(lastOp.ityp)
    /\ methods[lastOp.ityp] # <<>>
    /\ panicMsg = NoPanic

====
